---- MODULE Spec2Model ----
(***************************************************************************)
(* ClipNova bot (src/app/bot.py): the per-user download session state      *)
(* machine, the download semaphore and the delivery/cleanup path.          *)
(*                                                                         *)
(* The bot runs on one asyncio event loop with concurrent_updates(True):   *)
(* every update gets its own handler coroutine, and coroutines interleave  *)
(* only at awaits that really suspend (network sends, to_thread, sleep, a  *)
(* blocked semaphore).  Each action below is one such uninterrupted run of *)
(* a handler, from where it resumes to where it next suspends or returns.  *)
(***************************************************************************)
EXTENDS Integers, Sequences, FiniteSets, Bags, TLC

(***************************************************************************)
(* Program constants                                                       *)
(***************************************************************************)
MAX_CONCURRENT_DOWNLOADS == 3
MAX_RETRIES == 3
MIN_HEIGHT == 144
ID_LEN == 11
BYTES_PER_MB == 1048576

(***************************************************************************)
(* Bounds of the model                                                     *)
(***************************************************************************)
\* handler coroutines suspended at the same time: in Spec, in SpecChat, and
\* confirm handlers in SpecLimiter
MaxTasks == 1
MaxChatTasks == 2
MaxContenders == 4
\* the longest stream list the library returns to the catalog builder
MaxLen == 3

Users == {"u1", "u2"}

\* Python's None where a text is expected: the empty text is as falsy
NoText == <<>>

(***************************************************************************)
(* Texts.  A text is a sequence of one-character strings.                  *)
(***************************************************************************)
Digits == {"0", "1", "2", "3", "4", "5", "6", "7", "8", "9"}
Lower == {"a", "b", "c", "d", "e", "f", "g", "h", "i", "j", "k", "l", "m",
          "n", "o", "p", "q", "r", "s", "t", "u", "v", "w", "x", "y", "z"}
Upper == {"A", "B", "C", "D", "E", "F", "G", "H", "I", "J", "K", "L", "M",
          "N", "O", "P", "Q", "R", "S", "T", "U", "V", "W", "X", "Y", "Z"}
\* the class [0-9A-Za-z_-] of the video-id patterns
IdChars == Digits \cup Lower \cup Upper \cup {"_", "-"}
\* the characters re.sub(r'[^\w\-_\. ]', '', title) keeps (ASCII part of \w)
SafeChars == IdChars \cup {".", " "}

\* the texts of the model and their characters
UrlShare == "youtu.be/dQw4w9WgXcQ"
\* the id after v= is too short, and nothing id-shaped follows a slash
UrlShortId == "youtube.com/watch?v=abc"
\* info['title'] of the video
VideoTitle == "Hi: there!"

Chars(text) ==
    CASE text = UrlShare ->
           <<"y", "o", "u", "t", "u", ".", "b", "e", "/",
             "d", "Q", "w", "4", "w", "9", "W", "g", "X", "c", "Q">>
      [] text = UrlShortId ->
           <<"y", "o", "u", "t", "u", "b", "e", ".", "c", "o", "m", "/",
             "w", "a", "t", "c", "h", "?", "v", "=", "a", "b", "c">>
      [] text = VideoTitle ->
           <<"H", "i", ":", " ", "t", "h", "e", "r", "e", "!">>

\* the texts the message handler is dispatched for (they match its filter)
Urls == {UrlShare, UrlShortId}

\* "." of a regular expression: any character
ANY == "<any>"

\* the prefixes of the three patterns, in the order the code tries them; the
\* first pattern is the alternation v= | /
Patterns ==
    << {<<"v", "=">>, <<"/">>},
       {<<"y", "o", "u", "t", "u", ANY, "b", "e", "/">>},
       {<<"y", "o", "u", "t", "u", "b", "e", ANY, "c", "o", "m", "/",
          "s", "h", "o", "r", "t", "s", "/">>} >>

\* prefix, then ID_LEN id characters, found at position i of url
MatchAt(prefix, url, i) ==
    /\ i + Len(prefix) + ID_LEN - 1 <= Len(url)
    /\ \A k \in 1..Len(prefix) :
          prefix[k] = ANY \/ url[i + k - 1] = prefix[k]
    /\ \A k \in 1..ID_LEN : url[i + Len(prefix) + k - 1] \in IdChars

\* re.search(pattern, url): group 1 of the leftmost match, or NoText
Search(prefixes, url) ==
    LET hits == {i \in 1..Len(url) : \E p \in prefixes : MatchAt(p, url, i)}
    IN  IF hits = {} THEN NoText
        ELSE LET i == CHOOSE j \in hits : \A k \in hits : j <= k
                 p == CHOOSE q \in prefixes : MatchAt(q, url, i)
             IN  SubSeq(url, i + Len(p), i + Len(p) + ID_LEN - 1)

RECURSIVE FirstMatch(_, _)
FirstMatch(n, url) ==
    IF n > Len(Patterns) THEN NoText
    ELSE IF Search(Patterns[n], url) # NoText THEN Search(Patterns[n], url)
    ELSE FirstMatch(n + 1, url)

extract_video_id(url) == FirstMatch(1, Chars(url))

(***************************************************************************)
(* The extraction library's answers to a metadata query                    *)
(***************************************************************************)
\* a stream descriptor is a dict; a key the library leaves out is absent
Stream(id, v, a) == [format_id |-> id, vcodec |-> v, acodec |-> a, ext |-> "mp4"]
With(f, key, value) == [k \in DOMAIN f \cup {key} |-> IF k = key THEN value ELSE f[k]]
Has(f, key) == key \in DOMAIN f

\* 360p twice (first wins), a video-only 1080p stream, 720p last
RawMixed ==
    << With(With(Stream("18", "avc1", "mp4a"), "height", 360),
            "filesize", 18 * BYTES_PER_MB),
       With(With(Stream("137", "avc1", "none"), "height", 1080),
            "filesize", 50 * BYTES_PER_MB),
       With(Stream("134", "avc1", "mp4a"), "height", 360),
       With(With(Stream("22", "avc1", "mp4a"), "height", 720),
            "filesize_approx", 30 * BYTES_PER_MB) >>
\* one combined stream
RawSingle ==
    << With(Stream("18", "avc1", "mp4a"), "height", 360) >>
\* nothing the bot offers: audio only, video only, too small
RawUnusable ==
    << Stream("140", "none", "mp4a"),
       With(Stream("137", "avc1", "none"), "height", 1080),
       With(Stream("17", "mp4v", "mp4a"), "height", 120) >>

RawLists == {RawMixed, RawSingle, RawUnusable}

\* what the two metadata queries of one link can give: the first raises, the
\* second raises, or both return and the second gives the stream list
LinkResults ==
    {[raised |-> "get_video_info", formats |-> <<>>],
     [raised |-> "get_available_formats", formats |-> <<>>]}
    \cup {[raised |-> "", formats |-> raw] : raw \in RawLists}

VideoInfo == [title |-> VideoTitle]

(***************************************************************************)
(* Format catalog builder                                                  *)
(***************************************************************************)
\* f"{filesize / (1024 * 1024):.1f}MB" if filesize else "N/A": the number is
\* kept in tenths of a megabyte, and "N/A" carries a 0
filesize_str(f) ==
    LET filesize == IF Has(f, "filesize") /\ f.filesize # 0 THEN f.filesize
                    ELSE IF Has(f, "filesize_approx") THEN f.filesize_approx
                    ELSE 0
    IN  IF filesize = 0 THEN <<0, "N/A">>
        ELSE <<(filesize * 10 + BYTES_PER_MB \div 2) \div BYTES_PER_MB, "MB">>

\* f"{height}p"
ResolutionLabel(height) == <<height, "p">>
\* int(x.resolution[:-1])
ResolutionKey(opt) == opt.resolution[1]

DownloadOption(f) ==
    [format_id |-> f.format_id,
     resolution |-> ResolutionLabel(f.height),
     extension |-> f.ext,
     filesize |-> filesize_str(f)]

\* the loop over formats: options so far, in input order
RECURSIVE Collect(_, _)
Collect(formats, n) ==
    IF n = 0 THEN <<>>
    ELSE LET before == Collect(formats, n - 1)
             f == formats[n]
             seen_resolutions == {before[i].resolution : i \in 1..Len(before)}
         IN  IF /\ f.vcodec # "none"
                /\ f.acodec # "none"
                /\ Has(f, "height")
                /\ f.height # 0
                /\ f.height >= MIN_HEIGHT
                /\ ResolutionLabel(f.height) \notin seen_resolutions
             THEN Append(before, DownloadOption(f))
             ELSE before

\* the options left in the order of the loop
Unsorted(opts) == opts

\* list.sort(key=..., reverse=True): stable insertion, highest key first
RECURSIVE SortDescending(_)
SortDescending(opts) ==
    IF opts = <<>> THEN <<>>
    ELSE LET rest == SortDescending(Tail(opts))
             x == Head(opts)
             ahead == {i \in 1..Len(rest) : ResolutionKey(rest[i]) > ResolutionKey(x)}
             k == Cardinality(ahead)
         IN  SubSeq(rest, 1, k) \o <<x>> \o SubSeq(rest, k + 1, Len(rest))

get_available_formats(formats) == SortDescending(Collect(formats, Len(formats)))

\* every format id a button of some menu can carry
FormatIds ==
    UNION {{get_available_formats(raw)[i].format_id :
              i \in 1..Len(get_available_formats(raw))} : raw \in RawLists}

(***************************************************************************)
(* Messages the bot sends                                                  *)
(***************************************************************************)
NoReply == ""
MSG_INVALID_URL == "Invalid YouTube URL. Please try again."
MSG_FETCHING == "Fetching video information..."
MSG_NO_FORMATS == "No downloadable formats found for this video."
MSG_FORMAT_MENU == "Available formats"
MSG_PROCESS_FAILED == "Failed to process this video. Please try another URL."
MSG_EXPIRED == "Session expired. Please send the URL again."
MSG_INVALID_SELECTION == "Invalid selection. Please try again."
MSG_CONFIRM == "Would you like to start the download?"
MSG_STARTING == "Starting download..."
MSG_VIDEO == "video"
MSG_FILE_MISSING == "Failed to download the file."
MSG_FORMAT_UNAVAILABLE == "The selected quality isn't available for this video."
MSG_WAITING == "waiting for downloading..."
MSG_CANCELLED == "Operation cancelled."
MSG_PROGRESS == "Downloading..."

(***************************************************************************)
(* State                                                                   *)
(***************************************************************************)
VARIABLES
    user_sessions,       \* user id -> session dict
    download_semaphore,  \* the semaphore's value: free slots
    handlers,            \* bag of the suspended handler coroutines
    disk,                \* names of the files in the working directory
    event,               \* what the last step did and sent
    cancelled            \* history: users whose last cancel press was
                         \* followed by no link of theirs

vars == <<user_sessions, download_semaphore, handlers, disk, event, cancelled>>

\* what one step shows: the handler that ran, for which user, what happened,
\* the last message it sent in this step, and whether the handler returned
Event(fn, user, result, reply, returned) ==
    [fn |-> fn, user |-> user, result |-> result, reply |-> reply,
     returned |-> returned]

\* a suspended coroutine with the locals it still needs
Handler(fn, user, url, pc) ==
    [fn |-> fn, user |-> user, url |-> url, pc |-> pc,
     video_title |-> "", send_ok |-> FALSE, in_finally |-> FALSE, attempt |-> 0]

Suspended(h) == BagIn(h, handlers)
Without(h) == handlers (-) SetToBag({h})
Replaced(h, g) == Without(h) (+) SetToBag({g})

Init ==
    /\ user_sessions = <<>>
    /\ download_semaphore = MAX_CONCURRENT_DOWNLOADS
    /\ handlers = EmptyBag
    /\ disk = {}
    /\ event = Event("main", "", "started", NoReply, TRUE)
    /\ cancelled = {}

\* del user_sessions[user_id]
Deleted(sessions, u) == [v \in DOMAIN sessions \ {u} |-> sessions[v]]
\* user_sessions[user_id] = session
Stored(sessions, u, session) ==
    [v \in DOMAIN sessions \cup {u} |-> IF v = u THEN session ELSE sessions[v]]

(***************************************************************************)
(* handle_youtube_url                                                      *)
(***************************************************************************)
\* the message arrives; the handler runs up to the first metadata query
handle_youtube_url(u, url) ==
    /\ cancelled' = cancelled \ {u}
    /\ UNCHANGED <<user_sessions, download_semaphore, disk>>
    /\ IF extract_video_id(url) = NoText
       THEN /\ event' = Event("handle_youtube_url", u, "invalid_url",
                              MSG_INVALID_URL, TRUE)
            /\ UNCHANGED handlers
       ELSE /\ handlers' = handlers (+)
                  SetToBag({Handler("handle_youtube_url", u, url, "fetching")})
            /\ event' = Event("handle_youtube_url", u, "fetching",
                              MSG_FETCHING, FALSE)

\* not available_formats
\* an empty catalog taken for a usable one
NoFormatsNever(available_formats) == FALSE

NoFormats(available_formats) == available_formats = <<>>

NewSession(url, info, available_formats) ==
    [url |-> url, info |-> info, available_formats |-> available_formats,
     current_step |-> "format_selection"]

\* a failed query that also drops the session of an earlier link
AfterLinkForgetting(sessions, h, res) ==
    IF res.raised # ""
    THEN Deleted(sessions, h.user)
    ELSE IF NoFormats(get_available_formats(res.formats))
         THEN sessions
         ELSE Stored(sessions, h.user,
                     NewSession(h.url, VideoInfo, get_available_formats(res.formats)))

\* the session store when the handler of h returns, res being what the two
\* queries gave: a failure and an empty catalog store nothing
AfterLink(sessions, h, res) ==
    IF res.raised # "" \/ NoFormats(get_available_formats(res.formats))
    THEN sessions
    ELSE Stored(sessions, h.user,
                NewSession(h.url, VideoInfo, get_available_formats(res.formats)))

\* both queries are over: the rest of the handler
handle_youtube_url_fetched(h, res, menu_sent) ==
    /\ Suspended(h)
    /\ h.fn = "handle_youtube_url"
    /\ handlers' = Without(h)
    /\ user_sessions' = AfterLink(user_sessions, h, res)
    /\ UNCHANGED <<download_semaphore, disk, cancelled>>
    /\ event' =
          IF res.raised # ""
          THEN Event("handle_youtube_url", h.user, "query_failed",
                     MSG_PROCESS_FAILED, TRUE)
          ELSE IF NoFormats(get_available_formats(res.formats))
          THEN Event("handle_youtube_url", h.user, "no_formats", MSG_NO_FORMATS, TRUE)
          ELSE IF menu_sent
          THEN Event("handle_youtube_url", h.user, "session_created",
                     MSG_FORMAT_MENU, TRUE)
          ELSE Event("handle_youtube_url", h.user, "menu_failed",
                     MSG_PROCESS_FAILED, TRUE)

(***************************************************************************)
(* button_handler: format_<id>                                             *)
(***************************************************************************)
\* next((opt for opt in available_formats if opt.format_id == id), None),
\* as the sequence of the options found, first one first
\* the pressed id looked up among the options of any video, not the session's
find_format_unchecked(available_formats, clean_format_id) ==
    SelectSeq(get_available_formats(RawMixed),
              LAMBDA opt : opt.format_id = clean_format_id)

find_format(available_formats, clean_format_id) ==
    SelectSeq(available_formats, LAMBDA opt : opt.format_id = clean_format_id)

\* a rejected selection that throws the session away
handle_format_selection_dropping(u, clean_format_id) ==
    /\ UNCHANGED <<download_semaphore, handlers, disk, cancelled>>
    /\ IF u \notin DOMAIN user_sessions
       THEN /\ event' = Event("handle_format_selection", u, "expired",
                              MSG_EXPIRED, TRUE)
            /\ UNCHANGED user_sessions
       ELSE LET found == find_format(user_sessions[u].available_formats,
                                     clean_format_id)
            IN  IF found = <<>>
                THEN /\ event' = Event("handle_format_selection", u, "invalid",
                                       MSG_INVALID_SELECTION, TRUE)
                     /\ user_sessions' = Deleted(user_sessions, u)
                ELSE /\ user_sessions' =
                            Stored(user_sessions, u,
                                   With(user_sessions[u], "selected_format", Head(found)))
                     /\ event' = Event("handle_format_selection", u, "selected",
                                       MSG_CONFIRM, TRUE)

handle_format_selection(u, clean_format_id) ==
    /\ UNCHANGED <<download_semaphore, handlers, disk, cancelled>>
    /\ IF u \notin DOMAIN user_sessions
       THEN /\ event' = Event("handle_format_selection", u, "expired",
                              MSG_EXPIRED, TRUE)
            /\ UNCHANGED user_sessions
       ELSE LET found == find_format(user_sessions[u].available_formats,
                                     clean_format_id)
            IN  IF found = <<>>
                THEN /\ event' = Event("handle_format_selection", u, "invalid",
                                       MSG_INVALID_SELECTION, TRUE)
                     /\ UNCHANGED user_sessions
                ELSE /\ user_sessions' =
                            Stored(user_sessions, u,
                                   With(user_sessions[u], "selected_format", Head(found)))
                     /\ event' = Event("handle_format_selection", u, "selected",
                                       MSG_CONFIRM, TRUE)

(***************************************************************************)
(* cancel                                                                  *)
(***************************************************************************)
\* button_handler: cancel
cancel_operation(u) ==
    /\ user_sessions' = IF u \in DOMAIN user_sessions
                        THEN Deleted(user_sessions, u) ELSE user_sessions
    /\ cancelled' = cancelled \cup {u}
    /\ event' = Event("cancel_operation", u, "cancelled", MSG_CANCELLED, TRUE)
    /\ UNCHANGED <<download_semaphore, handlers, disk>>

\* CommandHandler("cancel", cancel_operation): the dispatcher calls
\* callback(update, context), cancel_operation takes one parameter, and the
\* call raises TypeError before the body runs
cancel_command(u) ==
    /\ event' = Event("cancel_command", u, "TypeError", NoReply, TRUE)
    /\ UNCHANGED <<user_sessions, download_semaphore, handlers, disk, cancelled>>

(***************************************************************************)
(* button_handler: confirm_download                                        *)
(***************************************************************************)
\* re.sub(r'[^\w\-_\. ]', '', video_title)
CleanTitle(video_title) == SelectSeq(Chars(video_title), LAMBDA c : c \in SafeChars)
\* ydl.prepare_filename(info_dict) under outtmpl f"{clean_title}.%(ext)s"
prepare_filename(clean_title) == clean_title \o <<".", "m", "p", "4">>
\* the file of the download of handler h
TempFile(h) == prepare_filename(CleanTitle(h.video_title))

\* Semaphore.locked()
\* a semaphore that never makes a caller wait
LockedNever == FALSE

Locked == download_semaphore = 0

\* a release that frees nothing
ReleasedNever(value) == value

\* Semaphore.release(), on leaving "async with download_semaphore"
Released(value) == value + 1

\* what the library call of one download can end in
DownloadOutcomes ==
    {"info_dict", "DownloadError", "DownloadError: Requested format is not available",
     "TimeoutError"}
DownloadFailures == {"DownloadError", "TimeoutError", "file_missing"}

\* the press arrives; the handler runs up to the acquisition of a slot
start_download(u) ==
    /\ UNCHANGED <<user_sessions, download_semaphore, disk, cancelled>>
    /\ IF u \notin DOMAIN user_sessions \/ ~Has(user_sessions[u], "selected_format")
       THEN /\ event' = Event("start_download", u, "expired", MSG_EXPIRED, TRUE)
            /\ UNCHANGED handlers
       ELSE /\ handlers' = handlers (+) SetToBag({
                  [Handler("start_download", u, user_sessions[u].url, "acquire")
                     EXCEPT !.video_title = user_sessions[u].info.title]})
            /\ event' = Event("start_download", u, "starting", MSG_STARTING, FALSE)

\* async with download_semaphore: a slot is free, the library call starts
start_download_acquire(h) ==
    /\ Suspended(h)
    /\ h.fn = "start_download"
    /\ h.pc = "acquire"
    /\ ~Locked
    /\ download_semaphore' = download_semaphore - 1
    /\ handlers' = Replaced(h, [h EXCEPT !.pc = "downloading"])
    /\ event' = Event("start_download", h.user, "downloading", NoReply, FALSE)
    /\ UNCHANGED <<user_sessions, disk, cancelled>>

\* a removal retried for as long as the file is locked
DeleteAttemptForever(files, file_path, attempt, is_locked) ==
    IF file_path \notin files
    THEN [next |-> "return", disk |-> files, deleted |-> FALSE]
    ELSE IF ~is_locked
    THEN [next |-> "return", disk |-> files \ {file_path}, deleted |-> TRUE]
    ELSE [next |-> "sleep", disk |-> files, deleted |-> FALSE]

\* a removal that is never tried
DeleteAttemptSkipped(files, file_path, attempt, is_locked) ==
    [next |-> "return", disk |-> files, deleted |-> FALSE]

\* one pass of the loop of safe_delete_file, attempt being its index: the file
\* is gone, is removed, or is locked (PermissionError)
DeleteAttempt(files, file_path, attempt, is_locked) ==
    IF file_path \notin files
    THEN [next |-> "return", disk |-> files, deleted |-> FALSE]
    ELSE IF ~is_locked
    THEN [next |-> "return", disk |-> files \ {file_path}, deleted |-> TRUE]
    ELSE IF attempt < MAX_RETRIES - 1
    THEN [next |-> "sleep", disk |-> files, deleted |-> FALSE]
    ELSE [next |-> "return", disk |-> files, deleted |-> FALSE]

\* the handler returns to button_handler: normally after a sent video, with
\* the exception of the failed send otherwise.  old is the coroutine as it
\* was suspended, h the same with its locals as they are now
Return(old, h, result) ==
    /\ handlers' = Without(old)
    /\ event' = IF h.send_ok
                THEN Event("start_download", h.user, result, NoReply, TRUE)
                ELSE Event("start_download", h.user, result, MSG_WAITING, TRUE)

\* the finally clause of start_download, files being the disk it finds
Finally(old, h, files, result, is_locked) ==
    LET temp_file == TempFile(h)
        try == DeleteAttempt(files, temp_file, 0, is_locked)
    IN  IF temp_file \notin files
        THEN /\ disk' = files
             /\ Return(old, h, result)
        ELSE /\ disk' = try.disk
             /\ IF try.next = "sleep"
                THEN /\ handlers' = Replaced(old, [h EXCEPT !.pc = "deleting",
                                                            !.in_finally = TRUE,
                                                            !.attempt = 1])
                     /\ event' = Event("start_download", h.user, result, NoReply, FALSE)
                ELSE Return(old, h, result)

\* a delivery that leaves the session in the store
AfterSendKeeping(old, h, files, result, is_locked) ==
    /\ UNCHANGED user_sessions
    /\ download_semaphore' = Released(download_semaphore)
    /\ Finally(old, h, files, result, is_locked)

\* safe_delete_file after the send has returned: the session goes after a
\* sent video, the slot is released, the finally clause runs
AfterSend(old, h, files, result, is_locked) ==
    /\ user_sessions' = IF h.send_ok /\ h.user \in DOMAIN user_sessions
                        THEN Deleted(user_sessions, h.user) ELSE user_sessions
    /\ download_semaphore' = Released(download_semaphore)
    /\ Finally(old, h, files, result, is_locked)

\* one pass of safe_delete_file for handler h, and what follows its return
Deleting(old, h, files, result, is_locked, locked_again) ==
    LET temp_file == TempFile(h)
        try == DeleteAttempt(files, temp_file, h.attempt, is_locked)
    IN  IF try.next = "sleep"
        THEN /\ handlers' = Replaced(old, [h EXCEPT !.pc = "deleting",
                                                    !.attempt = h.attempt + 1])
             /\ disk' = try.disk
             /\ event' = Event("start_download", h.user, result, NoReply, FALSE)
             /\ UNCHANGED <<user_sessions, download_semaphore>>
        ELSE IF h.in_finally
        THEN /\ disk' = try.disk
             /\ Return(old, h, result)
             /\ UNCHANGED <<user_sessions, download_semaphore>>
        ELSE AfterSend(old, h, try.disk, result, locked_again)

\* wait_for gives up on the library call after DOWNLOAD_TIMEOUT; the worker
\* thread that asyncio.to_thread started cannot be cancelled and runs on
Abandoned(h) == [h EXCEPT !.fn = "to_thread", !.pc = "running"]

\* what becomes of one progress report of the library.  The report is made
\* in the worker thread, where sync_progress_hook finds no event loop: the
\* RuntimeError is passed over.  Where the hook does schedule
\* download_progress_hook, the edit of the status message succeeds, or fails
\* and is logged
ProgressOutcomes == {"RuntimeError", "edited", "edit_failed"}

\* a progress report that throws the session away
sync_progress_hook_dropping(h, outcome) ==
    /\ Suspended(h)
    /\ h.fn \in {"start_download", "to_thread"}
    /\ h.pc \in {"downloading", "running"}
    /\ event' = Event("sync_progress_hook", h.user, outcome,
                      IF outcome = "edited" THEN MSG_PROGRESS ELSE NoReply, TRUE)
    /\ user_sessions' = Deleted(user_sessions, h.user)
    /\ UNCHANGED <<download_semaphore, handlers, disk, cancelled>>

\* the library reports progress while its download call runs
sync_progress_hook(h, outcome) ==
    /\ Suspended(h)
    /\ h.fn \in {"start_download", "to_thread"}
    /\ h.pc \in {"downloading", "running"}
    /\ event' = Event("sync_progress_hook", h.user, outcome,
                      IF outcome = "edited" THEN MSG_PROGRESS ELSE NoReply, TRUE)
    /\ UNCHANGED <<user_sessions, download_semaphore, handlers, disk, cancelled>>

\* the library call is over
start_download_downloaded(h, outcome, produced) ==
    /\ Suspended(h)
    /\ h.fn = "start_download"
    /\ h.pc = "downloading"
    /\ UNCHANGED <<user_sessions, cancelled>>
    /\ LET temp_file == TempFile(h)
           files == IF produced THEN disk \cup {temp_file} ELSE disk
       IN  IF outcome = "info_dict" /\ temp_file \in files
           THEN /\ disk' = files
                /\ handlers' = Replaced(h, [h EXCEPT !.pc = "sending"])
                /\ event' = Event("start_download", h.user, "sending", MSG_VIDEO, FALSE)
                /\ UNCHANGED download_semaphore
           ELSE /\ UNCHANGED disk
                /\ download_semaphore' = Released(download_semaphore)
                /\ handlers' = IF outcome = "TimeoutError"
                               THEN Replaced(h, Abandoned(h))
                               ELSE Without(h)
                /\ event' =
                      CASE outcome = "info_dict" ->
                             Event("start_download", h.user, "file_missing",
                                   MSG_FILE_MISSING, TRUE)
                        [] outcome = "DownloadError: Requested format is not available" ->
                             Event("start_download", h.user, "DownloadError",
                                   MSG_FORMAT_UNAVAILABLE, TRUE)
                        [] outcome = "DownloadError" ->
                             Event("start_download", h.user, "DownloadError",
                                   NoReply, TRUE)
                        [] outcome = "TimeoutError" ->
                             Event("start_download", h.user, "TimeoutError",
                                   MSG_WAITING, TRUE)

\* the library call of an abandoned worker thread ends, with or without
\* having written its file
to_thread_done(h, produced) ==
    /\ Suspended(h)
    /\ h.fn = "to_thread"
    /\ handlers' = Without(h)
    /\ disk' = IF produced THEN disk \cup {TempFile(h)} ELSE disk
    /\ event' = Event("to_thread", h.user, "done", NoReply, TRUE)
    /\ UNCHANGED <<user_sessions, download_semaphore, cancelled>>

\* reply_video is over: sent, or raised
start_download_sent(h, sent, is_locked, locked_again) ==
    /\ Suspended(h)
    /\ h.fn = "start_download"
    /\ h.pc = "sending"
    /\ UNCHANGED cancelled
    /\ Deleting(h, [h EXCEPT !.send_ok = sent], disk,
                IF sent THEN "video_sent" ELSE "send_failed",
                is_locked, locked_again)

\* asyncio.sleep(FILE_CLOSE_WAIT) is over: the next pass of safe_delete_file
start_download_retry(h, is_locked, locked_again) ==
    /\ Suspended(h)
    /\ h.fn = "start_download"
    /\ h.pc = "deleting"
    /\ UNCHANGED cancelled
    /\ Deleting(h, h, disk, "cleanup", is_locked, locked_again)

(***************************************************************************)
(* Specifications                                                          *)
(***************************************************************************)
Live == BagToSet(handlers)
\* at most max coroutines are suspended after the step
Within(max) == BagCardinality(handlers') <= max

\* Spec: the chats of all users, every update overlapping every other, on a
\* file system where removing a file never fails; a library call abandoned
\* after the timeout ends without a file
Next ==
    \/ \E u \in Users, url \in Urls : handle_youtube_url(u, url) /\ Within(MaxTasks)
    \/ \E h \in Live, res \in LinkResults, menu_sent \in BOOLEAN :
          handle_youtube_url_fetched(h, res, menu_sent)
    \/ \E u \in Users, id \in FormatIds : handle_format_selection(u, id)
    \/ \E u \in Users : cancel_operation(u)
    \/ \E u \in Users : cancel_command(u)
    \/ \E u \in Users : start_download(u) /\ Within(MaxTasks)
    \/ \E h \in Live : start_download_acquire(h)
    \/ \E h \in Live, outcome \in DownloadOutcomes, produced \in BOOLEAN :
          start_download_downloaded(h, outcome, produced)
    \/ \E h \in Live, sent \in BOOLEAN : start_download_sent(h, sent, FALSE, FALSE)
    \/ \E h \in Live : to_thread_done(h, FALSE)

Spec == Init /\ [][Next]_vars

\* SpecChat: one chat, every update overlapping every other, on a file system
\* where a file may be locked when it is removed
ChatUser == CHOOSE u \in Users : TRUE

NextChat ==
    \/ \E url \in Urls : handle_youtube_url(ChatUser, url) /\ Within(MaxChatTasks)
    \/ \E h \in Live, res \in LinkResults, menu_sent \in BOOLEAN :
          handle_youtube_url_fetched(h, res, menu_sent)
    \/ \E id \in FormatIds : handle_format_selection(ChatUser, id)
    \/ cancel_operation(ChatUser)
    \/ cancel_command(ChatUser)
    \/ start_download(ChatUser) /\ Within(MaxChatTasks)
    \/ \E h \in Live : start_download_acquire(h)
    \/ \E h \in Live, outcome \in DownloadOutcomes, produced \in BOOLEAN :
          start_download_downloaded(h, outcome, produced)
    \/ \E h \in Live, sent \in BOOLEAN, is_locked \in BOOLEAN, locked_again \in BOOLEAN :
          start_download_sent(h, sent, is_locked, locked_again)
    \/ \E h \in Live, is_locked \in BOOLEAN, locked_again \in BOOLEAN :
          start_download_retry(h, is_locked, locked_again)
    \/ \E h \in Live, produced \in BOOLEAN : to_thread_done(h, produced)

SpecChat == Init /\ [][NextChat]_vars

\* SpecLimiter: every user has picked a format, and confirm presses compete
\* for the slots
ConfirmedSession ==
    LET available_formats == get_available_formats(RawMixed)
    IN  With(NewSession(UrlShare, VideoInfo, available_formats),
             "selected_format", Head(available_formats))

InitLimiter ==
    /\ user_sessions = [u \in Users |-> ConfirmedSession]
    /\ download_semaphore = MAX_CONCURRENT_DOWNLOADS
    /\ handlers = EmptyBag
    /\ disk = {}
    /\ event = Event("main", "", "started", NoReply, TRUE)
    /\ cancelled = {}

NextLimiter ==
    \/ \E u \in Users : start_download(u) /\ Within(MaxContenders)
    \/ \E h \in Live : start_download_acquire(h)
    \/ \E h \in Live, outcome \in DownloadOutcomes, produced \in BOOLEAN :
          start_download_downloaded(h, outcome, produced)
    \/ \E h \in Live, sent \in BOOLEAN : start_download_sent(h, sent, FALSE, FALSE)
    \/ \E h \in Live, produced \in BOOLEAN : to_thread_done(h, produced)
    \/ \E h \in Live, outcome \in ProgressOutcomes : sync_progress_hook(h, outcome)

SpecLimiter == InitLimiter /\ [][NextLimiter]_vars

\* SpecHappy: one chat where every link yields a catalog, every download produces its
\* file, every send succeeds and no file is locked; a suspended coroutine is
\* resumed once what it awaits is over, and the waiters of the semaphore are
\* woken in turn
HappyResults == {[raised |-> "", formats |-> RawMixed]}

NextHappy ==
    \/ handle_youtube_url(ChatUser, UrlShare) /\ Within(MaxChatTasks)
    \/ \E h \in Live, res \in HappyResults : handle_youtube_url_fetched(h, res, TRUE)
    \/ \E id \in FormatIds : handle_format_selection(ChatUser, id)
    \/ start_download(ChatUser) /\ Within(MaxContenders)
    \/ \E h \in Live : start_download_acquire(h)
    \/ \E h \in Live : start_download_downloaded(h, "info_dict", TRUE)
    \/ \E h \in Live : start_download_sent(h, TRUE, FALSE, FALSE)

FairHappy ==
    \A u \in Users :
        /\ SF_vars(\E h \in Live : h.user = u /\ start_download_acquire(h))
        /\ WF_vars(\E h \in Live :
                      h.user = u /\ start_download_downloaded(h, "info_dict", TRUE))
        /\ WF_vars(\E h \in Live :
                      h.user = u /\ start_download_sent(h, TRUE, FALSE, FALSE))

SpecHappy == Init /\ [][NextHappy]_vars /\ FairHappy

\* SpecCatalog: the catalog builder alone, on every stream list up to
\* MaxLen that the library can return
StreamPool ==
    {With(With(Stream("18", "avc1", "mp4a"), "height", 360),
          "filesize", 18 * BYTES_PER_MB),
     With(Stream("134", "avc1", "mp4a"), "height", 360),
     With(With(Stream("22", "avc1", "mp4a"), "height", 720),
          "filesize_approx", 30 * BYTES_PER_MB),
     With(Stream("137", "avc1", "none"), "height", 1080),
     With(Stream("17", "mp4v", "mp4a"), "height", 120),
     Stream("140", "none", "mp4a")}

RawInputs == UNION {[1..n -> StreamPool] : n \in 0..MaxLen}

\* ydl.extract_info(url, download=False) returns info with info['formats']
extract_info(formats) ==
    /\ event.fn # "extract_info"
    /\ event' = Event("extract_info", "", formats, NoReply, FALSE)
    /\ UNCHANGED <<user_sessions, download_semaphore, handlers, disk, cancelled>>

\* the rest of get_available_formats: the options are built and returned
get_available_formats_returns ==
    /\ event.fn = "extract_info"
    /\ event' = Event("get_available_formats", "",
                      [formats |-> event.result,
                       available_options |-> get_available_formats(event.result)],
                      NoReply, TRUE)
    /\ UNCHANGED <<user_sessions, download_semaphore, handlers, disk, cancelled>>

NextCatalog ==
    \/ \E formats \in RawInputs : extract_info(formats)
    \/ get_available_formats_returns

SpecCatalog == Init /\ [][NextCatalog]_vars

(***************************************************************************)
(* Properties                                                              *)
(***************************************************************************)
\* h is inside "async with download_semaphore"
HoldsSlot(h) ==
    /\ h.fn = "start_download"
    /\ \/ h.pc \in {"downloading", "sending"}
       \/ h.pc = "deleting" /\ ~h.in_finally

\* the confirm handlers that have acquired a slot and not released it
SlotsHeld ==
    BagCardinality([h \in {g \in DOMAIN handlers : HoldsSlot(g)} |-> handlers[h]])

SessionOf(u) == user_sessions[u]
HasSession(u) == u \in DOMAIN user_sessions

\* C1: at most MAX_CONCURRENT_DOWNLOADS confirm handlers hold a download
\* slot at any time, however many users have confirmed.
SlotLimit == SlotsHeld <= MAX_CONCURRENT_DOWNLOADS

\* C1 witness: every slot is held, by handlers of two users, and one more
\* confirmed download waits for a slot.
SlotsContended ==
    /\ SlotsHeld = MAX_CONCURRENT_DOWNLOADS
    /\ \E h \in Live : h.fn = "start_download" /\ h.pc = "acquire"
    /\ \E g, h \in Live : HoldsSlot(g) /\ HoldsSlot(h) /\ g.user # h.user

\* C2: every acquired slot is released exactly once: the free slots and the
\* held ones always add up to MAX_CONCURRENT_DOWNLOADS, so with no confirm
\* handler inside the semaphore all slots are free.
SlotsAccounted ==
    /\ download_semaphore + SlotsHeld = MAX_CONCURRENT_DOWNLOADS
    /\ download_semaphore >= 0

\* C2 witness: a download whose send failed and whose file stayed locked
\* through every removal attempt has returned, and all slots are free.
SlotsFreeAfterFailedCleanup ==
    /\ event.fn = "start_download"
    /\ event.result = "cleanup"
    /\ event.returned
    /\ event.reply = MSG_WAITING
    /\ disk # {}
    /\ handlers = EmptyBag
    /\ download_semaphore = MAX_CONCURRENT_DOWNLOADS

\* C3: when a confirmed download has failed (library error, timeout, file
\* missing) and its handler has returned, the user has no session.
FailedDownloadRemovesSession ==
    (/\ event.fn = "start_download"
     /\ event.result \in DownloadFailures
     /\ event.returned)
    => ~HasSession(event.user)

\* the results of handling a format or confirm press, as opposed to the later
\* steps of a download
PressResults == {"expired", "invalid", "selected", "starting"}

\* C4: once a cancel press is processed the user has no session, and while
\* the user submits no link after it, every format or confirm press of that
\* user is answered with the session-expired message.
CancelExpiresLaterPresses ==
    /\ event.fn = "cancel_operation" => ~HasSession(event.user)
    /\ (/\ event.fn \in {"handle_format_selection", "start_download"}
        /\ event.result \in PressResults
        /\ event.user \in cancelled)
       => event.reply = MSG_EXPIRED

\* C5: once the /cancel command of a user has been processed, that user has
\* no session.
CancelCommandRemovesSession ==
    event.fn = "cancel_command" => ~HasSession(event.user)

\* C6: after a processed cancel press the result of the running download is
\* discarded: the confirm handler does not go on to send the file of a user
\* who cancelled and has no session.
CancelledDownloadNotSent ==
    ~(/\ event.fn = "start_download"
      /\ event.result = "sending"
      /\ event.user \in cancelled
      /\ ~HasSession(event.user))

\* the messages that tell the user the download failed
FailureMessages == {MSG_FILE_MISSING, MSG_FORMAT_UNAVAILABLE}

\* C7: a confirm handler that returns after a failed download (library
\* error, timeout, file missing) has sent the user a failure message.
DownloadFailureReported ==
    (/\ event.fn = "start_download"
     /\ event.result \in DownloadFailures
     /\ event.returned)
    => event.reply \in FailureMessages

\* C8: the selected format of a session is an entry of that session's
\* available formats.
SelectedFormatFromCatalog ==
    \A u \in DOMAIN user_sessions :
        Has(SessionOf(u), "selected_format")
        => \E i \in 1..Len(SessionOf(u).available_formats) :
              SessionOf(u).available_formats[i] = SessionOf(u).selected_format

\* C8 witness: both users hold a selected format, from different catalogs.
SelectionsFromTwoCatalogs ==
    /\ event.result = "selected"
    /\ \E u, v \in DOMAIN user_sessions :
          /\ Has(SessionOf(u), "selected_format")
          /\ Has(SessionOf(v), "selected_format")
          /\ SessionOf(u).available_formats # SessionOf(v).available_formats

\* C9 as claimed: after a link whose metadata query failed, the user has no
\* session.
FailedLinkLeavesNoSession ==
    (event.fn = "handle_youtube_url" /\ event.result = "query_failed")
    => ~HasSession(event.user)

\* C9 amended: a link whose metadata query fails leaves the session store as
\* it was: no session is created, and a session of an earlier link stays.
FailedLinkKeepsStore ==
    [][(event'.fn = "handle_youtube_url" /\ event'.result = "query_failed")
       => user_sessions' = user_sessions]_vars

\* C9 witness: the query of a link has failed for a user who has a session
\* from an earlier link.
FailedLinkWithEarlierSession ==
    /\ event.fn = "handle_youtube_url"
    /\ event.result = "query_failed"
    /\ HasSession(event.user)

\* C10: a link without a video id, or with an empty catalog, leaves the
\* session store as it was, and every session has a non-empty catalog.
RejectedLinkStoresNothing ==
    /\ [](\A u \in DOMAIN user_sessions : SessionOf(u).available_formats # <<>>)
    /\ [][(/\ event'.fn = "handle_youtube_url"
           /\ event'.result \in {"invalid_url", "no_formats"})
          => user_sessions' = user_sessions]_vars

\* C10 witness: a link with an empty catalog has been rejected for a user
\* who has a session from an earlier link.
RejectedLinkBesideSession ==
    /\ event.fn = "handle_youtube_url"
    /\ event.result = "no_formats"
    /\ HasSession(event.user)

\* the confirm handler h takes the step: it was suspended before it and is
\* gone, or suspended elsewhere, after it
Steps(h) == CopiesIn(h, handlers') < CopiesIn(h, handlers)

\* whether the send of h has succeeded, seen on the step h takes
SendSucceeds(h) ==
    IF h.pc = "sending" THEN event'.result = "video_sent" ELSE h.send_ok

\* C11: after the send of a produced file, succeeded or raised, its removal
\* is attempted; when the removal attempts after the send are over, locked
\* file or not, the session is removed after a successful send and left
\* alone after a failed one; and the handler returns with the outcome of the
\* send, silent after a success and the send failure otherwise.
CleanupKeepsOutcome ==
    /\ [][\A h \in Live :
            (h.fn = "start_download" /\ h.pc = "sending" /\ Steps(h))
            => \/ TempFile(h) \notin disk'
               \/ \E g \in BagToSet(handlers') :
                     g.pc = "deleting" /\ g.attempt >= 1 /\ g.user = h.user]_vars
    /\ [][\A h \in Live :
            (/\ HoldsSlot(h) /\ h.pc \in {"sending", "deleting"} /\ Steps(h)
             /\ download_semaphore' > download_semaphore)
            => IF SendSucceeds(h)
               THEN h.user \notin DOMAIN user_sessions'
               ELSE user_sessions' = user_sessions]_vars
    /\ [][\A h \in Live :
            (/\ h.fn = "start_download" /\ h.pc \in {"sending", "deleting"}
             /\ Steps(h) /\ event'.returned)
            => event'.reply = IF SendSucceeds(h) THEN NoReply ELSE MSG_WAITING]_vars

\* C11 witness: the video was sent, every removal attempt found the file
\* locked, and the handler has returned silently with the session removed.
SentWithFileLeft ==
    /\ event.fn = "start_download"
    /\ event.result = "cleanup"
    /\ event.returned
    /\ event.reply = NoReply
    /\ disk # {}
    /\ handlers = EmptyBag
    /\ ~HasSession(event.user)

\* the results with which an exception leaves a handler for the dispatcher:
\* the call of the callback of /cancel, made outside any try of the program
Escaped == {"TypeError"}

\* C12: no handler lets an exception escape to the dispatcher, the handler
\* of the /cancel command included.
NoExceptionEscapes == event.result \notin Escaped

\* the confirm press of u has been accepted
Confirmed(u) ==
    event.fn = "start_download" /\ event.user = u /\ event.result = "starting"

\* a confirm handler of u has returned after sending the video: the file is
\* off the disk, u has no session, and the slot is free again
Delivered(u) ==
    /\ event.fn = "start_download" /\ event.user = u
    /\ event.result = "video_sent" /\ event.returned
    /\ disk = {}
    /\ ~HasSession(u)
    /\ download_semaphore >= 1
    /\ download_semaphore + SlotsHeld = MAX_CONCURRENT_DOWNLOADS

\* C13: on the happy path, once a user has confirmed, a state is eventually
\* reached where the video has been sent, the file is off the disk, the
\* user has no session and the slot is released.
HappyPathDelivers == \A u \in Users : Confirmed(u) ~> Delivered(u)

\* C13 witness: the video of a user has been delivered while no other
\* handler is left.
DeliveredAndIdle ==
    /\ \E u \in Users : Delivered(u)
    /\ handlers = EmptyBag
    /\ download_semaphore = MAX_CONCURRENT_DOWNLOADS

\* a stream the catalog may offer: video and audio, at least MIN_HEIGHT high
Offered(f) ==
    f.vcodec # "none" /\ f.acodec # "none" /\ Has(f, "height") /\ f.height >= MIN_HEIGHT

\* opts is a catalog for the stream list formats
CatalogFor(formats, opts) ==
    /\ \A i, j \in 1..Len(opts) :
          i < j => ResolutionKey(opts[i]) > ResolutionKey(opts[j])
    /\ \A i, j \in 1..Len(opts) :
          opts[i].resolution = opts[j].resolution => i = j
    /\ \A i \in 1..Len(opts) :
          \E n \in 1..Len(formats) :
             /\ Offered(formats[n])
             /\ opts[i] = DownloadOption(formats[n])
             /\ \A m \in 1..(n - 1) :
                   ~(Offered(formats[m]) /\ formats[m].height = formats[n].height)

\* C14: the catalog the builder returns is strictly descending by
\* resolution, has no resolution twice, and each entry is built from the
\* first stream of the input that has video, audio and at least the minimum
\* height at that resolution.
CatalogSortedFirstWins ==
    event.fn = "get_available_formats"
    => CatalogFor(event.result.formats, event.result.available_options)

\* C14 witness: of two streams of one resolution the first was kept, and a
\* higher resolution that came last in the input is first in the catalog.
CatalogReordered ==
    /\ event.fn = "get_available_formats"
    /\ Len(event.result.formats) = 3
    /\ Len(event.result.available_options) = 2
    /\ \A n \in 1..3 : Offered(event.result.formats[n])
    /\ event.result.formats[1].height = event.result.formats[2].height
    /\ event.result.formats[1].format_id # event.result.formats[2].format_id
    /\ event.result.available_options[1] = DownloadOption(event.result.formats[3])
    /\ event.result.available_options[2] = DownloadOption(event.result.formats[1])

\* the library download calls of user u that the confirm handlers of u await
DownloadsInFlight(u) ==
    BagCardinality([h \in {g \in DOMAIN handlers :
                             g.fn = "start_download" /\ g.pc = "downloading" /\ g.user = u}
                      |-> handlers[h]])

\* C15: a confirm press that arrives while a download of the same user is in
\* progress starts no second download: each user has at most one library
\* download in flight.
OneDownloadPerUser == \A u \in Users : DownloadsInFlight(u) <= 1

\* the library download calls that are executing: those a confirm handler
\* awaits and those of abandoned worker threads
LibraryCalls ==
    BagCardinality([h \in {g \in DOMAIN handlers :
                             \/ g.fn = "start_download" /\ g.pc = "downloading"
                             \/ g.fn = "to_thread"}
                      |-> handlers[h]])

\* C16: at most MAX_CONCURRENT_DOWNLOADS library download calls execute at
\* any moment, the calls abandoned after the timeout included.
LibraryCallsLimited == LibraryCalls <= MAX_CONCURRENT_DOWNLOADS

\* C17: a session stored by a new link starts without a selected format, and
\* a download confirmed under the earlier session of the user does not remove
\* it when that download completes.
NewSessionOutlivesOldDownload ==
    /\ [](event.result = "session_created"
          => (/\ HasSession(event.user)
              /\ ~Has(SessionOf(event.user), "selected_format")))
    /\ [][\A h \in Live :
            (/\ h.fn = "start_download" /\ Steps(h)
             /\ HasSession(h.user)
             /\ ~Has(SessionOf(h.user), "selected_format"))
            => h.user \in DOMAIN user_sessions']_vars

\* C18: a rejected format selection, for want of a session or of the format
\* in the catalog, leaves every session as it was, creates none, starts no
\* download and acquires no slot.
RejectedSelectionChangesNothing ==
    [][(/\ event'.fn = "handle_format_selection"
        /\ event'.result \in {"expired", "invalid"})
       => (/\ UNCHANGED <<user_sessions, handlers, download_semaphore, disk>>
           /\ event'.returned
           /\ event'.result = "expired" => ~HasSession(event'.user))]_vars

\* C18 witness: a format that is not in the catalog was rejected for a user
\* whose session holds an earlier selection.
RejectedWithEarlierSelection ==
    /\ event.fn = "handle_format_selection"
    /\ event.result = "invalid"
    /\ HasSession(event.user)
    /\ Has(SessionOf(event.user), "selected_format")

\* the removal attempts the request of h has made on its file so far, h
\* waiting between two attempts: the call in the finally clause of
\* start_download comes after a first call that used up its attempts
AttemptsMade(h) == IF h.in_finally THEN MAX_RETRIES + h.attempt ELSE h.attempt

\* C19 as claimed: a request makes at most MAX_RETRIES removal attempts in
\* total on its file.
AttemptsBoundedPerRequest ==
    \A h \in Live : h.pc = "deleting" => AttemptsMade(h) <= MAX_RETRIES

\* C19 amended: each call of safe_delete_file makes at most MAX_RETRIES
\* attempts and waits only between two of them; a request calls it once
\* after the send and once more in its finally clause, so it makes at most
\* twice MAX_RETRIES attempts.
AttemptsBoundedPerCall ==
    \A h \in Live :
        h.pc = "deleting"
        => (/\ h.attempt >= 1
            /\ h.attempt <= MAX_RETRIES - 1
            /\ AttemptsMade(h) <= 2 * MAX_RETRIES - 1)

\* C19 witness: in its finally clause a request waits before the last
\* attempt of the second call, the file still on disk.
WaitingBeforeLastAttempt ==
    \E h \in Live :
        /\ h.pc = "deleting"
        /\ h.in_finally
        /\ h.attempt = MAX_RETRIES - 1
        /\ TempFile(h) \in disk

\* C20: handling a progress report, its status-message edit failed or not,
\* leaves every session as it was and the download it reports on running:
\* no handler, slot or file changes.
ProgressChangesNothing ==
    [][event'.fn = "sync_progress_hook"
       => UNCHANGED <<user_sessions, handlers, download_semaphore, disk>>]_vars

\* C20 witness: a progress report has been handled for a user who has a
\* session and whose download is still running.
ProgressDuringDownload ==
    /\ event.fn = "sync_progress_hook"
    /\ HasSession(event.user)
    /\ DownloadsInFlight(event.user) >= 1

====
